---- MODULE Spec2Model ----
(***************************************************************************)
(* Model of aggregate.py: the script that merges the submitted layout      *)
(* files into one chip layout around n_lasers laser circuits.              *)
(*                                                                         *)
(* The script is one sequential run.  Its state is the module-level        *)
(* variables of the script; its steps are                                  *)
(*   LoadFile          one iteration of the load loop (lines 323-472)      *)
(*   EnableLibraries   the end of the load loop (line 476)                 *)
(*   Reorganise        the power monitor reorganisation (lines 483-501)    *)
(*   LoadPDKCells      PDK cell loading and the checks (lines 505-565)     *)
(*   BuildLaserCircuit one iteration of the laser loop (lines 574-675)     *)
(*   Export            insertion into the top cell and export (677-688)    *)
(* The CAD engine (pya / SiEPIC) is outside the script: what a file holds, *)
(* whether a call of the engine raises and whether a PDK cell is found are *)
(* inputs drawn from bounded sets.                                         *)
(***************************************************************************)
EXTENDS Integers, Sequences, FiniteSets, TLC

VARIABLES
    files_in,            \* the ids of the files found, in processing order
    fi,                  \* index of the next file to load among the layout files
    pc,                  \* position of the run
    course_cells,        \* list of the cells of the designs
    cells_course,        \* list of the course cell chosen for each design
    design_count,
    subcell_instances,   \* the sub-cell instance created for each design
    top_insts,           \* files copied straight under the top cell
    file_read,           \* what the current file holds on disk
    course,              \* the course of the current file
    layout2,             \* the layout read from the current file
    bbox, bbox2,         \* bounding boxes of the last design: original, clipped
    log,                 \* the warnings (and power monitor lines) of the log
    raised,              \* the exceptions raised so far: file, site, caught or not
    pdk,                 \* the PDK cells as loaded: name -> found or not
    row,                 \* the laser loop's variable
    laser_circuit_cells, \* the laser circuit cells created
    inst_tree_out_all,   \* the final-stage splitters of all trees so far
    attached,            \* what has been connected to the splitter outputs
    exported             \* whether the merged layout has been written

vars == <<files_in, fi, pc, course_cells, cells_course, design_count,
          subcell_instances, top_insts, file_read, course, layout2, bbox, bbox2,
          log, raised,
          pdk, row, laser_circuit_cells, inst_tree_out_all, attached, exported>>

----------------------------------------------------------------------------
(* Bounds of the model.                                                    *)

\* number of ordinary student files ELEC413_sNN.gds in the submissions folder
NStudents == 45
\* a directory listing starts at one of the first StartMax files of the folder
StartMax == 3
\* listings of at most this many files are loaded with every file content
MaxDetailFiles == 1
\* at most this many PDK cells are missing from the libraries
MaxMissing == 1

----------------------------------------------------------------------------
(* Configuration constants of the script.                                  *)

n_lasers == 3
tree_depth == 4
cell_Width == 800000
cell_Height == 500000
cell_Gap_Height == 8000
cells_rows_per_laser == 4
cells_columns_per_laser == 4
\* the database unit 0.001 um, in units of 1e-11 um
dbu == 100000000

layers_keep == {"1/99", "4/0", "11/0", "12/0", "13/0", "1/10", "68/0", "81/0",
                "10/0", "99/0", "200/0", "131/155", "201/0", "998/0"}
layer_text == "10/0"
layer_SEM == "200/0"
layer_SEM_allow == {"edXphot1x", "ELEC413", "SiEPIC_Passives"}

----------------------------------------------------------------------------
(* Text: a string is a sequence of one-character strings.                  *)

Upper == <<"A","B","C","D","E","F","G","H","I","J","K","L","M",
           "N","O","P","Q","R","S","T","U","V","W","X","Y","Z">>
LowerCase == <<"a","b","c","d","e","f","g","h","i","j","k","l","m",
               "n","o","p","q","r","s","t","u","v","w","x","y","z">>
Digit == <<"0","1","2","3","4","5","6","7","8","9">>

Range(s) == {s[i] : i \in 1..Len(s)}
IndexIn(c, s) == CHOOSE i \in 1..Len(s) : s[i] = c

\* the code point of a character (the characters file names are made of)
Ord(c) ==
    IF c \in Range(Upper) THEN 64 + IndexIn(c, Upper)
    ELSE IF c \in Range(LowerCase) THEN 96 + IndexIn(c, LowerCase)
    ELSE IF c \in Range(Digit) THEN 47 + IndexIn(c, Digit)
    ELSE IF c = "." THEN 46
    ELSE IF c = "/" THEN 47
    ELSE 95   \* "_"

\* str.lower()
LowerChar(c) == IF c \in Range(Upper) THEN LowerCase[IndexIn(c, Upper)] ELSE c
lower(s) == [i \in 1..Len(s) |-> LowerChar(s[i])]

\* sub in s
Contains(sub, s) ==
    \E i \in 1..(Len(s) - Len(sub) + 1) : SubSeq(s, i, i + Len(sub) - 1) = sub

\* s.startswith / comparison of strings as sorted() compares them
RECURSIVE StrLess(_, _)
StrLess(s, t) ==
    IF t = <<>> THEN FALSE
    ELSE IF s = <<>> THEN TRUE
    ELSE IF Ord(Head(s)) # Ord(Head(t)) THEN Ord(Head(s)) < Ord(Head(t))
    ELSE StrLess(Tail(s), Tail(t))

\* os.path.basename
RECURSIVE LastSlash(_, _)
LastSlash(s, i) == IF i = 0 THEN 0 ELSE IF s[i] = "/" THEN i ELSE LastSlash(s, i - 1)
basename(s) == SubSeq(s, LastSlash(s, Len(s)) + 1, Len(s))

s_elec413 == <<"e","l","e","c","4","1","3">>
s_ebeam == <<"e","b","e","a","m">>
s_openebl == <<"o","p","e","n","e","b","l">>
s_siepic_passives == <<"s","i","e","p","i","c","_","p","a","s","s","i","v","e","s">>
s_power_monitor == <<"p","o","w","e","r","_","m","o","n","i","t","o","r">>
s_oas == <<".","o","a","s">>
s_gds == <<".","g","d","s">>
s_top == <<"t","o","p">>
s_EBeam_ == <<"E","B","e","a","m","_">>
framework_file == <<"s","h","u","k","s","a","n","_","p","c","m">>


----------------------------------------------------------------------------
(* The files.  A file is identified by a number; Path gives its path.  The *)
(* submissions folder holds the files Submissions (sorted by name, as      *)
(* sorted(files) leaves them), the framework folder holds FrameworkId.     *)

submissions_dir == <<"/","c","h","i","p","/","s","u","b","m","i","s","s","i","o","n","s","/">>
framework_dir == <<"/","c","h","i","p","/","f","r","a","m","e","w","o","r","k","/">>

StudentName(i) ==
    <<"E","L","E","C","4","1","3","_","s">> \o <<Digit[(i \div 10) + 1], Digit[(i % 10) + 1]>> \o s_gds

Submissions ==
    << <<"E","B","e","a","m","_","E","L","E","C","4","1","3","_","j","o",".","g","d","s">>,
       <<"E","L","E","C","4","1","3","_","p","o","w","e","r","_","m","o","n","i","t","o","r",".","g","d","s">> >>
    \o [i \in 1..NStudents |-> StudentName(i)]
    \o << <<"R","E","A","D","M","E",".","m","d">>,
          <<"S","i","E","P","I","C","_","P","a","s","s","i","v","e","s","_","r","i","n","g",".","g","d","s">>,
          <<"m","i","s","c","_","d","e","s","i","g","n",".","g","d","s">>,
          <<"o","p","e","n","E","B","L","_","e","b","e","a","m","_","k",".","o","a","s">>,
          <<"o","p","e","n","E","B","L","_","n","0","1",".","g","d","s">>,
          <<"s","i","e","p","i","c","_","p","a","s","s","i","v","e","s","_","o","p","e","n","e","b","l",".","G","D","S">> >>

NSubmissions == Len(Submissions)
FrameworkId == NSubmissions + 1
FileIds == 1..FrameworkId

Path(f) ==
    IF f = FrameworkId THEN framework_dir \o framework_file \o s_oas
    ELSE submissions_dir \o Submissions[f]

\* the file stamp strftime("%Y%m%d_%H%M") of a file
filedate == <<"2","0","2","5","1","0","0","1","_","1","2","0","0">>

\* the files a run can find: a run of consecutive files of the submissions
\* folder (starting at one of its first StartMax files, or any one file
\* alone), then the framework folder's (lines 282-292)
Window(a, b) == [i \in 1..(b - a + 1) |-> a + i - 1]
Windows ==
    { Window(a, b) : a \in 1..StartMax, b \in 0..NSubmissions }
    \cup { Window(a, a) : a \in 1..NSubmissions }
Listings == { w \o fw : w \in Windows, fw \in {<<>>, <<FrameworkId>>} }

\* the filter of the load loop (line 323), on the whole path
IsLayoutFile(f) == Contains(s_oas, lower(Path(f))) \/ Contains(s_gds, lower(Path(f)))

LayoutFile == [f \in FileIds |-> IsLayoutFile(f)]

\* the course chosen with the tests for ebeam and elec413 in the other order
CourseOf_EbeamFirst(basefilename) ==
    IF Contains(s_ebeam, lower(basefilename)) THEN "edXphot1x"
    ELSE IF Contains(s_elec413, lower(basefilename)) THEN "ELEC413"
    ELSE IF Contains(s_openebl, lower(basefilename)) THEN "openEBL"
    ELSE IF Contains(s_siepic_passives, lower(basefilename)) THEN "SiEPIC_Passives"
    ELSE "openEBL"

\* lines 343-352: the course of a file, from its base name
CourseOf(basefilename) ==
    IF Contains(s_elec413, lower(basefilename)) THEN "ELEC413"
    ELSE IF Contains(s_ebeam, lower(basefilename)) THEN "edXphot1x"
    ELSE IF Contains(s_openebl, lower(basefilename)) THEN "openEBL"
    ELSE IF Contains(s_siepic_passives, lower(basefilename)) THEN "SiEPIC_Passives"
    ELSE "openEBL"

\* the name of the cell created for a file (lines 384, 410)
CellName(cell) == basename(Path(cell.file)) \o <<"_">> \o filedate


----------------------------------------------------------------------------
(* Geometry.  A shape is a box on a layer; a cell holds a set of shapes.   *)

Box(l, b, r, t) == [l |-> l, b |-> b, r |-> r, t |-> t]
Shape(layer, box) == [layer |-> layer, box |-> box]

Min(S) == CHOOSE x \in S : \A y \in S : x <= y
Max(S) == CHOOSE x \in S : \A y \in S : x >= y

\* pya's empty box
EmptyBox == Box(1, 1, -1, -1)

\* cell.bbox()
BBoxOf(shapes) ==
    IF shapes = {} THEN EmptyBox
    ELSE Box(Min({s.box.l : s \in shapes}), Min({s.box.b : s \in shapes}),
             Max({s.box.r : s \in shapes}), Max({s.box.t : s \in shapes}))

Overlaps(box, clip) ==
    /\ Max({box.l, clip.l}) < Min({box.r, clip.r})
    /\ Max({box.b, clip.b}) < Min({box.t, clip.t})

Intersection(box, clip) ==
    Box(Max({box.l, clip.l}), Max({box.b, clip.b}),
        Min({box.r, clip.r}), Min({box.t, clip.t}))

\* layout.clip(cell, box): the shapes cut to the box, those outside dropped
Clip(shapes, clip) ==
    { Shape(s.layer, Intersection(s.box, clip)) : s \in {x \in shapes : Overlaps(x.box, clip)} }

\* the clip box of line 456
ClipBoxOf(b) == Box(b.l, b.b, b.l + cell_Width, b.b + cell_Height)

RECURSIVE GCD(_, _)
GCD(a, b) == IF b = 0 THEN a ELSE GCD(b, a % b)

\* x * num / den, rounded to the nearest integer coordinate
RoundDiv(x, d) == (2 * x + d) \div (2 * d)
ScaleCoord(x, num, den) == RoundDiv(x * num, den)
ScaleBox(b, num, den) ==
    Box(ScaleCoord(b.l, num, den), ScaleCoord(b.b, num, den),
        ScaleCoord(b.r, num, den), ScaleCoord(b.t, num, den))

\* round(x, 10) of a database unit given in units of 1e-11
Round10(x) == ((x + 5) \div 10) * 10

\* the scaling dbu / wrong_dbu
Scaling_Inverted(wrong_dbu) ==
    <<dbu \div GCD(wrong_dbu, dbu), wrong_dbu \div GCD(wrong_dbu, dbu)>>

\* line 367: the scaling wrong_dbu / dbu, as a fraction in lowest terms.  A
\* database unit is a multiple of 1e-11 and dbu is 1e-3, so the quotient is a
\* multiple of 1e-8, which round(.., 10) leaves as it is.
Scaling(wrong_dbu) ==
    <<wrong_dbu \div GCD(wrong_dbu, dbu), dbu \div GCD(wrong_dbu, dbu)>>

\* layout2.transform(ICplxTrans(scaling, 0, False, 0, 0)) on the top cells
Transform(tops, scaling) ==
    [j \in 1..Len(tops) |->
        [tops[j] EXCEPT !.shapes =
            { Shape(s.layer, ScaleBox(s.box, scaling[1], scaling[2])) : s \in tops[j].shapes }]]

----------------------------------------------------------------------------
(* What a file can hold.                                                   *)

t_design == <<"d","e","s","i","g","n">>
t_other == <<"o","t","h","e","r">>
t_top == <<"t","o","p">>
t_TOP == <<"T","O","P">>

G_nominal == { Shape("4/0", Box(0, 0, 600000, 400000)) }
G_limit == { Shape("4/0", Box(0, 0, 800000, 500000)) }
G_wide == { Shape("4/0", Box(0, 0, 900000, 400000)) }
G_tall == { Shape("4/0", Box(0, 0, 600000, 600000)) }
G_offset == { Shape("4/0", Box(-100000, -50000, 750000, 420000)) }
G_far == { Shape("4/0", Box(0, 0, 100000, 100000)),
           Shape("11/0", Box(850000, 0, 900000, 100000)) }
G_layers == { Shape("1/0", Box(0, 0, 900000, 400000)),
              Shape("4/0", Box(100000, 100000, 500000, 300000)),
              Shape("10/0", Box(0, 0, 50000, 50000)),
              Shape("200/0", Box(200000, 200000, 400000, 300000)) }
G_dropped == { Shape("1/0", Box(0, 0, 600000, 400000)) }
Geometries == {G_nominal, G_limit, G_wide, G_tall, G_offset, G_far, G_layers, G_dropped}

TopCell(name, shapes) == [name |-> name, shapes |-> shapes]
TopCellLists ==
    { <<>>,
      <<TopCell(t_design, {})>>,
      <<TopCell(t_design, G_nominal), TopCell(t_other, G_nominal)>>,
      <<TopCell(t_top, G_nominal), TopCell(t_TOP, G_wide)>>,
      <<TopCell(t_other, G_nominal), TopCell(t_top, G_nominal)>>,
      <<TopCell(t_top, {}), TopCell(t_TOP, G_nominal)>> }

\* database units of a file, in units of 1e-11 um: 0.001, 0.00100000004,
\* 0.005, 0.0005
DBUs == {dbu, dbu + 4, 5 * dbu, dbu \div 2}

\* a well-formed submission
Nominal ==
    [ read_raises |-> FALSE, dbu |-> dbu, transform_raises |-> FALSE,
      tops |-> <<TopCell(t_design, G_nominal)>>, copy_raises |-> FALSE ]

\* a file departs from a well-formed submission in one respect
AllContents ==
    {Nominal}
    \cup { [Nominal EXCEPT !.read_raises = TRUE], [Nominal EXCEPT !.copy_raises = TRUE] }
    \cup { [Nominal EXCEPT !.dbu = d] : d \in DBUs }
    \cup { [Nominal EXCEPT !.dbu = d, !.transform_raises = TRUE] : d \in DBUs \ {dbu} }
    \cup { [Nominal EXCEPT !.tops = t] : t \in TopCellLists }
    \cup { [Nominal EXCEPT !.tops = <<TopCell(t_design, g)>>] : g \in Geometries }

\* the contents explored for the files of a listing
ContentsFor(files) ==
    IF Len(files) <= MaxDetailFiles THEN AllContents
    ELSE {Nominal, [Nominal EXCEPT !.read_raises = TRUE]}


----------------------------------------------------------------------------
(* The load loop, lines 323-472.                                           *)

\* the files the loop visits (line 323)
IsLayout(f) == LayoutFile[f]
Filter(files) == SelectSeq(files, IsLayout)

\* a try/except around the whole iteration
Caught_Everything(site) == TRUE

\* the only try/except of the load loop (lines 365-371) is around the
\* scaling transform: an exception raised anywhere else propagates
Caught(site) == site = "transform"

Raise(file, site) == [file |-> file, site |-> site, caught |-> Caught(site)]
LogLine(file, top, kind) == [file |-> file, top |-> top, kind |-> kind]

\* line 358
DbuMismatch(layout_dbu) == Round10(layout_dbu) # dbu

\* lines 357-371: the layout after the DBU check
DbuChecked(c) ==
    IF ~DbuMismatch(c.dbu) THEN [dbu |-> c.dbu, tops |-> c.tops]
    ELSE IF c.transform_raises THEN [dbu |-> dbu, tops |-> c.tops]
    ELSE [dbu |-> dbu, tops |-> Transform(c.tops, Scaling(c.dbu))]

DbuLog(f, c) ==
    IF ~DbuMismatch(c.dbu) THEN <<>>
    ELSE IF c.transform_raises THEN <<LogLine(f, 0, "dbu_mismatch")>>
    ELSE <<LogLine(f, 0, "dbu_mismatch"), LogLine(f, 0, "dbu_corrected")>>

\* line 401
IsDesignCell(num_top_cells, name) ==
    num_top_cells = 1 \/ lower(name) = s_top \/ lower(name) = s_EBeam_

\* lines 415-422: the layers of the layout that are not kept are deleted
KeptLayers(crs) == layers_keep \cup (IF crs \in layer_SEM_allow THEN {layer_SEM} ELSE {})
DeleteLayers(tops, crs) ==
    [j \in 1..Len(tops) |->
        [tops[j] EXCEPT !.shapes = { s \in tops[j].shapes : s.layer \in KeptLayers(crs) }]]

\* lines 425-443: the shapes of the text layer that are no texts are deleted
\* (the shapes of the model are boxes)
DeleteTextLayerShapes(shapes) == { s \in shapes : s.layer # layer_text }

\* the cell copied as it is, not the clipped one
Copied_Unclipped(shapes, b) == shapes

\* what is copied into the sub-cell (lines 456, 463)
Copied(shapes, b) == Clip(shapes, ClipBoxOf(b))

\* lines 381-472, one top cell.  S holds the variables the loop changes and
\* stop: "" | "break" | "raise".
ProcessCell(S, f, c, crs, j) ==
    LET cell == S.tops[j]
        n == Len(S.tops)
    IN
    IF Contains(framework_file, basename(Path(f)))
    THEN [S EXCEPT !.top_insts = Append(@, f), !.stop = "break"]
    ELSE IF ~IsDesignCell(n, cell.name) THEN S
    ELSE IF BBoxOf(cell.shapes).t < BBoxOf(cell.shapes).b
    THEN [S EXCEPT !.log = Append(@, LogLine(f, j, "empty")), !.stop = "break"]
    ELSE
        LET tops1 == DeleteLayers(S.tops, crs)
            tops2 == [tops1 EXCEPT ![j].shapes = DeleteTextLayerShapes(@)]
            b == BBoxOf(tops2[j].shapes)
            cell2 == Copied(tops2[j].shapes, b)
            b2 == BBoxOf(cell2)
            subcell2 == [file |-> f, top |-> j]
            inst == [cell |-> subcell2, trans |-> <<-b.l, -b.b>>, shapes |-> {}]
            S1 == [S EXCEPT !.course_cells = Append(@, subcell2),
                            !.tops = tops2,
                            !.bbox = b,
                            !.bbox2 = b2,
                            !.log = IF b # b2 THEN Append(@, LogLine(f, j, "clipped")) ELSE @]
        IN
        IF c.copy_raises
        THEN [S1 EXCEPT !.subcell_instances = Append(@, inst),
                        !.raised = Append(@, Raise(f, "copy")),
                        !.stop = IF Caught("copy") THEN "break" ELSE "raise"]
        ELSE [S1 EXCEPT !.subcell_instances = Append(@, [inst EXCEPT !.shapes = cell2]),
                        !.design_count = @ + 1,
                        !.cells_course = Append(@, crs)]

RECURSIVE TopCellLoop(_, _, _, _, _)
TopCellLoop(S, f, c, crs, j) ==
    IF j > Len(S.tops) \/ S.stop # "" THEN S
    ELSE TopCellLoop(ProcessCell(S, f, c, crs, j), f, c, crs, j + 1)

Layouts == Filter(files_in)
NoLayout == [dbu |-> dbu, tops |-> <<>>]

\* lines 324-371: the file is read, its course chosen, its DBU checked
ReadFile ==
    /\ pc = "load"
    /\ fi <= Len(Layouts)
    /\ \E c \in ContentsFor(files_in) :
        LET f == Layouts[fi] IN
        /\ file_read' = c
        /\ IF c.read_raises
           THEN /\ raised' = Append(raised, Raise(f, "read"))
                /\ layout2' = NoLayout
                /\ pc' = IF Caught("read") THEN "load" ELSE "aborted"
                /\ fi' = IF Caught("read") THEN fi + 1 ELSE fi
                /\ UNCHANGED <<course, log>>
           ELSE /\ course' = CourseOf(basename(Path(f)))
                /\ layout2' = DbuChecked(c)
                /\ log' = log \o DbuLog(f, c)
                /\ raised' = IF DbuMismatch(c.dbu) /\ c.transform_raises
                             THEN Append(raised, Raise(f, "transform"))
                             ELSE raised
                /\ pc' = IF DbuMismatch(c.dbu) /\ c.transform_raises /\ ~Caught("transform")
                         THEN "aborted" ELSE "cells"
                /\ fi' = fi
    /\ UNCHANGED <<files_in, course_cells, cells_course, design_count, subcell_instances,
                   top_insts, bbox, bbox2, pdk, row, laser_circuit_cells,
                   inst_tree_out_all, attached, exported>>

\* lines 373-472: the top cells of the file
ProcessTopCells ==
    /\ pc = "cells"
    /\ LET f == Layouts[fi]
           S0 == [course_cells |-> course_cells, cells_course |-> cells_course,
                  design_count |-> design_count, subcell_instances |-> subcell_instances,
                  top_insts |-> top_insts, tops |-> layout2.tops, bbox |-> bbox,
                  bbox2 |-> bbox2, log |-> log, raised |-> raised, stop |-> ""]
           S == TopCellLoop(S0, f, file_read, course, 1)
       IN
       /\ course_cells' = S.course_cells
       /\ cells_course' = S.cells_course
       /\ design_count' = S.design_count
       /\ subcell_instances' = S.subcell_instances
       /\ top_insts' = S.top_insts
       /\ layout2' = [layout2 EXCEPT !.tops = S.tops]
       /\ bbox' = S.bbox
       /\ bbox2' = S.bbox2
       /\ log' = S.log
       /\ raised' = S.raised
       /\ pc' = IF S.stop = "raise" THEN "aborted" ELSE "load"
       /\ fi' = IF S.stop = "raise" THEN fi ELSE fi + 1
    /\ UNCHANGED <<files_in, file_read, course, pdk, row, laser_circuit_cells,
                   inst_tree_out_all, attached, exported>>

\* line 476: the loop is over
EnableLibraries ==
    /\ pc = "load"
    /\ fi > Len(Layouts)
    /\ pc' = "reorganise"
    /\ UNCHANGED <<files_in, fi, course_cells, cells_course, design_count,
                   subcell_instances, top_insts, file_read, course, layout2, bbox, bbox2,
                   log, raised, pdk, row, laser_circuit_cells, inst_tree_out_all,
                   attached, exported>>


----------------------------------------------------------------------------
(* The power monitor, lines 483-501.                                       *)

\* line 485, for each file
NamesPowerMonitor == [f \in FileIds |-> Contains(s_power_monitor, lower(CellName([file |-> f])))]

\* lines 483-488: the index (from 0) of the first power monitor cell, or -1
PowerMonitorIndex(cells) ==
    IF \E i \in 1..Len(cells) : NamesPowerMonitor[cells[i].file]
    THEN Min({i \in 1..Len(cells) : NamesPowerMonitor[cells[i].file]}) - 1
    ELSE -1

\* list.pop(i) and list.insert(i, x), i from 0; insert past the end appends
Pop(list, i) == SubSeq(list, 1, i) \o SubSeq(list, i + 2, Len(list))
Insert(list, i, x) ==
    IF i >= Len(list) THEN Append(list, x)
    ELSE SubSeq(list, 1, i) \o <<x>> \o SubSeq(list, i + 1, Len(list))

\* the position of the power monitor copy of a laser circuit (line 498)
PowerMonitorPosition(r) == r * tree_depth * tree_depth

\* lines 497-499
RECURSIVE InsertCopies(_, _, _)
InsertCopies(list, x, r) ==
    IF r >= n_lasers THEN list
    ELSE InsertCopies(Insert(list, PowerMonitorPosition(r), x), x, r + 1)

Reorganised(cells) ==
    LET i == PowerMonitorIndex(cells) IN
    IF i = -1 THEN cells
    ELSE InsertCopies(Pop(cells, i), cells[i + 1], 0)

Reorganise ==
    /\ pc = "reorganise"
    /\ course_cells' = Reorganised(course_cells)
    /\ log' = Append(log, LogLine(0, 0, IF PowerMonitorIndex(course_cells) = -1
                                        THEN "no_power_monitor" ELSE "power_monitor"))
    /\ pc' = "pdk"
    /\ UNCHANGED <<files_in, fi, cells_course, design_count, subcell_instances, top_insts,
                   file_read, course, layout2, bbox, bbox2, raised, pdk, row,
                   laser_circuit_cells, inst_tree_out_all, attached, exported>>

----------------------------------------------------------------------------
(* The PDK cells, lines 505-565.                                           *)

PDKCells == {"cell_y", "cell_heater", "cell_pad", "cell_terminator", "cell_laser"}

\* the checks without that of the bond pad
RequiredCells_NoPad == <<"cell_y", "cell_heater", "cell_terminator", "cell_laser">>

\* lines 533-550, in the order of the checks: the cells that must be there
RequiredCells == <<"cell_y", "cell_heater", "cell_terminator", "cell_laser", "cell_pad">>

\* the first check that raises, or 0
FirstMissing(found) ==
    IF \E k \in 1..Len(RequiredCells) : ~found[RequiredCells[k]]
    THEN Min({k \in 1..Len(RequiredCells) : ~found[RequiredCells[k]]})
    ELSE 0

LoadPDKCells ==
    /\ pc = "pdk"
    /\ \E found \in [PDKCells -> BOOLEAN] :
        /\ Cardinality({x \in PDKCells : ~found[x]}) <= MaxMissing
        /\ pdk' = found
        /\ IF FirstMissing(found) # 0
           THEN /\ raised' = Append(raised, [file |-> 0, site |-> RequiredCells[FirstMissing(found)],
                                             caught |-> FALSE])
                /\ pc' = "aborted"
           ELSE /\ raised' = raised
                /\ pc' = "lasers"
    /\ UNCHANGED <<files_in, fi, course_cells, cells_course, design_count,
                   subcell_instances, top_insts, file_read, course, layout2, bbox, bbox2,
                   log, row, laser_circuit_cells, inst_tree_out_all, attached, exported>>

----------------------------------------------------------------------------
(* The laser circuits, lines 571-675.                                      *)

\* the outputs of one tree: tree_depth^2 (sic), as lines 642 and 670 count them
OutputsPerTree == tree_depth * tree_depth

\* y_splitter_tree's inst_tree_out: the final-stage splitters of the tree, each
\* with the outputs opt2 and opt3
SplittersPerTree == OutputsPerTree \div 2
TreeOut(r) == [k \in 1..SplittersPerTree |-> [circuit |-> r, splitter |-> k - 1]]

\* the design loop without the cap of a circuit's outputs
EndDesign_NoCap(r) == design_count

\* line 642: the designs of laser circuit r
FirstDesign(r) == r * OutputsPerTree

EndDesign(r) == Min({design_count, (r + 1) * OutputsPerTree})

\* line 670: the outputs of laser circuit r that get a terminator
FirstTerminator(r) == Min({design_count, (r + 1) * OutputsPerTree})
EndTerminator(r) == (r + 1) * OutputsPerTree

\* lines 649, 672: the splitter (index from 0 into inst_tree_out_all) and its port
SplitterOf(d) == d \div 2
PortOf(d) == 2 + ((d + 1) % 2)

\* the grid advance wrapping one row too late
Advance_WrapLate(cell_row, cell_column) ==
    IF cell_row + 1 > cells_rows_per_laser
    THEN <<0, cell_column + 1>>
    ELSE <<cell_row + 1, cell_column>>

\* lines 663-666: the grid cell after <<cell_row, cell_column>>
Advance(cell_row, cell_column) ==
    IF cell_row + 1 > cells_rows_per_laser - 1
    THEN <<0, cell_column + 1>>
    ELSE <<cell_row + 1, cell_column>>

\* lines 642-666: the student instances of laser circuit r, from design d on
RECURSIVE PlaceDesigns(_, _, _, _)
PlaceDesigns(r, d, cell_row, cell_column) ==
    IF d >= EndDesign(r) THEN <<>>
    ELSE << [ d |-> d,
              cell |-> course_cells[d + 1],
              cell_row |-> cell_row,
              cell_column |-> cell_column,
              position_y |-> cell_row * (cell_Height + cell_Gap_Height),
              splitter |-> SplitterOf(d),
              port |-> PortOf(d) ] >>
         \o PlaceDesigns(r, d + 1, Advance(cell_row, cell_column)[1],
                         Advance(cell_row, cell_column)[2])

Connection(r, d, what) ==
    [row |-> r, d |-> d, splitter |-> SplitterOf(d), port |-> PortOf(d), what |-> what]

BuildLaserCircuit ==
    /\ pc = "lasers"
    /\ row < n_lasers
    /\ LET students == PlaceDesigns(row, FirstDesign(row), 0, 0) IN
       /\ laser_circuit_cells' = Append(laser_circuit_cells,
                                        [name |-> row, students |-> students])
       /\ inst_tree_out_all' = inst_tree_out_all \o TreeOut(row)
       /\ attached' = attached
                \cup { Connection(row, students[k].d, "design") : k \in 1..Len(students) }
                \cup { Connection(row, d, "terminator") :
                          d \in FirstTerminator(row)..(EndTerminator(row) - 1) }
    /\ row' = row + 1
    /\ pc' = IF row + 1 < n_lasers THEN "lasers" ELSE "export"
    /\ UNCHANGED <<files_in, fi, course_cells, cells_course, design_count,
                   subcell_instances, top_insts, file_read, course, layout2, bbox, bbox2,
                   log, raised, pdk, exported>>

\* lines 677-688
Export ==
    /\ pc = "export"
    /\ exported' = TRUE
    /\ pc' = "done"
    /\ UNCHANGED <<files_in, fi, course_cells, cells_course, design_count,
                   subcell_instances, top_insts, file_read, course, layout2, bbox, bbox2,
                   log, raised, pdk, row, laser_circuit_cells, inst_tree_out_all, attached>>

----------------------------------------------------------------------------

Init ==
    /\ files_in \in Listings
    /\ fi = 1
    /\ pc = "load"
    /\ course_cells = <<>>
    /\ cells_course = <<>>
    /\ design_count = 0
    /\ subcell_instances = <<>>
    /\ top_insts = <<>>
    /\ file_read = Nominal
    /\ course = "openEBL"
    /\ layout2 = NoLayout
    /\ bbox = EmptyBox
    /\ bbox2 = EmptyBox
    /\ log = <<>>
    /\ raised = <<>>
    /\ pdk = [x \in PDKCells |-> FALSE]
    /\ row = 0
    /\ laser_circuit_cells = <<>>
    /\ inst_tree_out_all = <<>>
    /\ attached = {}
    /\ exported = FALSE

Next ==
    \/ ReadFile
    \/ ProcessTopCells
    \/ EnableLibraries
    \/ Reorganise
    \/ LoadPDKCells
    \/ BuildLaserCircuit
    \/ Export

Spec == Init /\ [][Next]_vars


----------------------------------------------------------------------------
(* Helpers of the properties.                                              *)

AfterLoading == pc \in {"reorganise", "pdk", "lasers", "export", "done"}
Built == pc \in {"export", "done"}
Circuits == 1..Len(laser_circuit_cells)
Students(r) == laser_circuit_cells[r].students

\* the submissions are visited in the order sorted() gives them
ListingSorted ==
    \A i \in 1..(Len(files_in) - 1) :
        files_in[i + 1] # FrameworkId => StrLess(Submissions[files_in[i]], Submissions[files_in[i + 1]])

----------------------------------------------------------------------------
(* C1: the course of a loaded file is that of the first of the patterns    *)
(* elec413, ebeam, openebl, siepic_passives (in this order) that its       *)
(* lower-cased base name contains, and openEBL when it contains none.      *)

CoursePatterns ==
    << <<s_elec413, "ELEC413">>, <<s_ebeam, "edXphot1x">>,
       <<s_openebl, "openEBL">>, <<s_siepic_passives, "SiEPIC_Passives">> >>
Matching(name) == {k \in 1..Len(CoursePatterns) : Contains(CoursePatterns[k][1], lower(name))}
ExpectedCourse(name) ==
    IF Matching(name) = {} THEN "openEBL" ELSE CoursePatterns[Min(Matching(name))][2]

ExpectedCourseOf == [f \in FileIds |-> ExpectedCourse(basename(Path(f)))]

\* C1: every loaded file has the course of the first pattern its name contains, openEBL if none
C1_CourseByFirstMatch ==
    /\ pc = "cells" => course = ExpectedCourseOf[Layouts[fi]]
    /\ pc \in {"load", "cells", "reorganise"} =>
          /\ Len(cells_course) = Len(course_cells)
          /\ \A i \in 1..Len(cells_course) :
                cells_course[i] = ExpectedCourseOf[course_cells[i].file]

\* a file whose name matches two patterns has been given the earlier one
C1_Witness ==
    /\ pc = "cells"
    /\ Matching(basename(Path(Layouts[fi]))) = {2, 3}
    /\ course = "edXphot1x"

----------------------------------------------------------------------------
(* C2: once a power monitor submission has been loaded, every one of the   *)
(* n_lasers laser circuits holds exactly one instance of the power monitor *)
(* cell when the circuits are built.                                       *)

PowerMonitorLoaded == \E i \in 1..Len(course_cells) : NamesPowerMonitor[course_cells[i].file]
PowerMonitorsIn(r) == {k \in 1..Len(Students(r)) : NamesPowerMonitor[Students(r)[k].cell.file]}

\* C2: with a power monitor loaded, each built laser circuit holds exactly one instance of it
C2_OnePowerMonitorPerCircuit ==
    Built /\ PowerMonitorLoaded =>
        /\ Len(laser_circuit_cells) = n_lasers
        /\ \A r \in Circuits : Cardinality(PowerMonitorsIn(r)) = 1

----------------------------------------------------------------------------
(* C3: when the circuits are built, each output (port opt2 or opt3 of a    *)
(* final-stage splitter) of every tree has exactly one thing attached.     *)

AttachedTo(k, port) == {a \in attached : a.splitter = k /\ a.port = port}

\* C3: after the circuits are built each splitter output has exactly one attachment
C3_OneAttachmentPerOutput ==
    Built =>
        \A k \in 0..(Len(inst_tree_out_all) - 1) : \A port \in {2, 3} :
            Cardinality(AttachedTo(k, port)) = 1

----------------------------------------------------------------------------
(* C4: a laser circuit holds at most 16 design instances; the entry at     *)
(* index d of course_cells is instantiated only in circuit d div 16, and   *)
(* no entry at index 48 or more is instantiated.                           *)

\* C4: at most 16 designs per circuit, entry d only in circuit d div 16, none from index 48 on
C4_DesignsPerCircuit ==
    \A r \in Circuits :
        /\ Len(Students(r)) <= 16
        /\ \A k \in 1..Len(Students(r)) :
              /\ Students(r)[k].d \div 16 = r - 1
              /\ Students(r)[k].d < 48
              /\ Students(r)[k].cell = course_cells[Students(r)[k].d + 1]

\* more than 48 entries, and three full circuits
C4_Witness ==
    /\ pc = "done"
    /\ Len(course_cells) > 48
    /\ \A r \in Circuits : Len(Students(r)) = 16

----------------------------------------------------------------------------
(* C5: the k-th design placed in a circuit (k from 0) is in grid cell      *)
(* (row k mod 4, column k div 4); rows and columns stay within 0..3, and   *)
(* no two designs of a circuit share a grid cell.                          *)

\* C5: the k-th design of a circuit is at row k mod 4, column k div 4, within 0..3, no cell twice
C5_Grid ==
    \A r \in Circuits :
        /\ \A k \in 1..Len(Students(r)) :
              /\ Students(r)[k].cell_row = (k - 1) % 4
              /\ Students(r)[k].cell_column = (k - 1) \div 4
              /\ Students(r)[k].cell_row <= cells_rows_per_laser - 1
              /\ Students(r)[k].cell_column <= cells_columns_per_laser - 1
        /\ \A j, k \in 1..Len(Students(r)) :
              j # k => <<Students(r)[j].cell_row, Students(r)[j].cell_column>>
                          # <<Students(r)[k].cell_row, Students(r)[k].cell_column>>

\* a circuit with the 16 grid cells taken
C5_Witness ==
    \E r \in Circuits :
        /\ Len(Students(r)) = 16
        /\ Students(r)[16].cell_row = 3
        /\ Students(r)[16].cell_column = 3


----------------------------------------------------------------------------
(* C6 as stated: a submission whose database unit differs from dbu has,    *)
(* after the DBU check, the database unit dbu, its geometry scaled by      *)
(* wrong_dbu / dbu and a warning in the log; one whose database unit is    *)
(* dbu is neither rescaled nor warned about.                               *)

CurrentFile == Layouts[fi]
Warned(f) == \E k \in 1..Len(log) : log[k] = LogLine(f, 0, "dbu_mismatch")

\* tops scaled by the fraction of the file's database unit over dbu
ScaledBy(tops, file_dbu) ==
    LET g == GCD(file_dbu, dbu)
        num == file_dbu \div g
        den == dbu \div g
    IN [j \in 1..Len(tops) |->
          TopCell(tops[j].name,
                  { Shape(s.layer, Box(RoundDiv(s.box.l * num, den), RoundDiv(s.box.b * num, den),
                                       RoundDiv(s.box.r * num, den), RoundDiv(s.box.t * num, den)))
                    : s \in tops[j].shapes })]

\* C6 (as stated): a differing database unit is corrected, scaled and warned about; an equal one is left alone
C6_AsStated ==
    pc = "cells" =>
        IF file_read.dbu # dbu
        THEN /\ layout2.dbu = dbu
             /\ layout2.tops = ScaledBy(file_read.tops, file_read.dbu)
             /\ Warned(CurrentFile)
        ELSE /\ layout2 = [dbu |-> dbu, tops |-> file_read.tops]
             /\ ~Warned(CurrentFile)

(* C6, amended: the database units are compared after rounding to 10       *)
(* decimals.  A submission whose rounded database unit differs from dbu    *)
(* has, after the DBU check, the database unit dbu and a warning in the    *)
(* log, and its geometry is scaled by wrong_dbu / dbu unless the scaling   *)
(* transform raised, in which case the geometry is as read.  A submission  *)
(* whose rounded database unit is dbu is left as read (its own database    *)
(* unit included) and is not warned about.                                 *)

TransformRaised(f) ==
    \E k \in 1..Len(raised) : raised[k].file = f /\ raised[k].site = "transform"

\* C6 (amended): the same for database units compared after rounding, the scaling skipped when the transform raised
C6_DbuCheck ==
    pc = "cells" =>
        IF ((file_read.dbu + 5) \div 10) * 10 # dbu
        THEN /\ layout2.dbu = dbu
             /\ Warned(CurrentFile)
             /\ layout2.tops = IF TransformRaised(CurrentFile)
                               THEN file_read.tops
                               ELSE ScaledBy(file_read.tops, file_read.dbu)
             /\ TransformRaised(CurrentFile) <=> file_read.transform_raises
        ELSE /\ layout2 = [dbu |-> file_read.dbu, tops |-> file_read.tops]
             /\ ~Warned(CurrentFile)
             /\ ~TransformRaised(CurrentFile)

\* a file of database unit 0.005 has been scaled by 5
C6_Witness ==
    /\ pc = "cells"
    /\ file_read.dbu = 5 * dbu
    /\ ~file_read.transform_raises
    /\ layout2.dbu = dbu
    /\ layout2.tops = <<TopCell(t_design, { Shape("4/0", Box(0, 0, 3000000, 2000000)) })>>
    /\ Warned(CurrentFile)

----------------------------------------------------------------------------
(* C7: what is copied into a design's sub-cell lies inside the box of      *)
(* cell_Width x cell_Height anchored at the lower-left corner of the       *)
(* design's bounding box, and the clipping warning is in the log exactly   *)
(* when the clipped bounding box differs from the original one.            *)

ClipWarned(cell) == \E k \in 1..Len(log) : log[k] = LogLine(cell.file, cell.top, "clipped")
LastInstance == subcell_instances[Len(subcell_instances)]
\* the last design's sub-cell has been filled and bbox, bbox2 are its boxes
LastDesignCopied ==
    /\ pc \in {"load", "reorganise"}
    /\ subcell_instances # <<>>
    /\ LastInstance.cell.file = Layouts[fi - 1]

\* C7: the copied geometry is inside the clip box, and the warning is logged exactly when bbox # bbox2
C7_Clipped ==
    /\ \A k \in 1..Len(subcell_instances) :
          LET inst == subcell_instances[k]
              left == -inst.trans[1]
              bottom == -inst.trans[2]
          IN \A s \in inst.shapes :
                /\ left <= s.box.l /\ s.box.r <= left + 800000
                /\ bottom <= s.box.b /\ s.box.t <= bottom + 500000
    /\ LastDesignCopied =>
          /\ LastInstance.trans = <<-bbox.l, -bbox.b>>
          /\ bbox2 = BBoxOf(LastInstance.shapes)
          /\ ClipWarned(LastInstance.cell) <=> bbox # bbox2

\* an oversized design has been cut and the warning written
C7_Witness ==
    /\ LastDesignCopied
    /\ bbox = Box(-100000, -50000, 750000, 420000)
    /\ bbox2 = Box(-100000, -50000, 700000, 420000)
    /\ LastInstance.shapes # {}
    /\ ClipWarned(LastInstance.cell)

----------------------------------------------------------------------------
(* C8: if a required library cell (splitter, heater, terminator, laser,    *)
(* bond pad) is not loaded, the run raises before a laser circuit cell is  *)
(* created, and nothing is exported.                                       *)

\* C8: with a required cell missing the run never reaches the laser circuits or the export
C8_MissingCellIsFatal ==
    (\E x \in PDKCells : ~pdk[x]) =>
        /\ pc \notin {"lasers", "export", "done"}
        /\ laser_circuit_cells = <<>>
        /\ ~exported

\* the run has stopped at the check of the bond pad
C8_Witness ==
    /\ pc = "aborted"
    /\ ~pdk["cell_pad"]
    /\ raised # <<>>
    /\ raised[Len(raised)].site = "cell_pad"
    /\ course_cells # <<>>

----------------------------------------------------------------------------
(* C9: when reading or processing a submission raises, the run stops at    *)
(* that file: no later file is processed, no laser circuit is built and    *)
(* nothing is exported.                                                    *)

\* the files visited before, and at, position i of the loop
Visited(i) == {Layouts[k] : k \in 1..i}

----------------------------------------------------------------------------
(* C10: from the end of loading to the end of placement, course_cells and  *)
(* cells_course have the same length, and cells_course[i] is the course    *)
(* chosen for the design course_cells[i].                                  *)

\* C10: after loading, course_cells and cells_course are parallel lists
C10_ParallelLists ==
    AfterLoading =>
        /\ Len(course_cells) = Len(cells_course)
        /\ \A i \in 1..Len(cells_course) :
              i <= Len(course_cells) => cells_course[i] = ExpectedCourseOf[course_cells[i].file]

====
